---- MODULE Spec2Model ----
(***************************************************************************)
(* Goal-tracking backend: JWT middleware, auth handlers, goal handlers and *)
(* the progress computation of the Goal model.                             *)
(*                                                                         *)
(* Time is counted in clock ticks, TimePrecision ticks to the second.      *)
(* Strings that the code only compares are TLA+ strings; strings it parses *)
(* (the Authorization header, hex object ids, signed tokens) are modelled  *)
(* structurally.                                                           *)
(***************************************************************************)
EXTENDS Integers, Sequences, FiniteSets, TLC

(***************************************************************************)
(* Bounds of the model.                                                    *)
(***************************************************************************)
TimePrecision == 2
SecondsPerHour == 2
MaxExpiryHours == 2
MaxIssueClock == 2
MaxHeaderLen == 3
MaxSubTasks == 3
MaxUsers == 2
MaxClock == 1
MaxGoals == 1
MaxListGoals == 2

(***************************************************************************)
(* Program constants.                                                      *)
(***************************************************************************)
TokenExpiryHours == 24

Hour == SecondsPerHour * TimePrecision

jwtSecret == "server-secret"
attackerSecret == "other-secret"

ObjectIDs == 1..3

(***************************************************************************)
(* primitive.ObjectID <-> hex string.  A hex string is a record: valid     *)
(* ones carry the id they encode, anything else fails to decode.           *)
(***************************************************************************)
Hex(id) == [valid |-> TRUE, id |-> id]

NotHex == [valid |-> FALSE, id |-> 0]

ObjectIDFromHex(s) == [err |-> ~s.valid, id |-> s.id]

(***************************************************************************)
(* jwt.NewNumericDate truncates to whole seconds.                          *)
(***************************************************************************)
NewNumericDate(t) == t - (t % TimePrecision)

(***************************************************************************)
(* An ideal MAC: equal exactly when method, message and key are equal.     *)
(***************************************************************************)
HMAC(alg, claims, key) == [alg |-> alg, claims |-> claims, key |-> key]

SigningMethodHMAC == {"HS256", "HS384", "HS512"}

SignedString(alg, claims, key) ==
    [alg |-> alg, claims |-> claims, sig |-> HMAC(alg, claims, key)]

(***************************************************************************)
(* JwtMiddleware.GenerateToken.  now1 and now2 are the two readings of     *)
(* time.Now(): the first sets the expiry, the second the issue time.       *)
(***************************************************************************)
GenerateToken(userID, expiryHours, now1, now2) ==
    LET expirationTime == now1 + expiryHours * Hour
        claims == [userId |-> Hex(userID),
                   exp |-> NewNumericDate(expirationTime),
                   iat |-> NewNumericDate(now2)]
    IN  SignedString("HS256", claims, jwtSecret)

(***************************************************************************)
(* The Authorization header is a sequence of atoms: a space, a word, or a  *)
(* token string.  An atom never contains a space.                          *)
(***************************************************************************)
NoJwt == SignedString("", [userId |-> NotHex, exp |-> 0, iat |-> 0], "")

Word(text) == [text |-> text, jwt |-> NoJwt]

TokenString(t) == [text |-> "jwt", jwt |-> t]

SP == Word(" ")

Bearer == Word("Bearer")

(***************************************************************************)
(* strings.Split(s, " "): the parts between the spaces, empty ones kept.   *)
(***************************************************************************)
RECURSIVE Split(_)
Split(s) ==
    IF s = <<>> THEN << <<>> >>
    ELSE LET rest == Split(Tail(s))
         IN  IF Head(s) = SP
             THEN << <<>> >> \o rest
             ELSE << <<Head(s)>> \o Head(rest) >> \o Tail(rest)

(***************************************************************************)
(* jwt.ParseWithClaims with the middleware's key function, at time now.    *)
(***************************************************************************)
ParseWithClaims(tokenString, now) ==
    IF Len(tokenString) # 1 \/ tokenString[1].text # "jwt"
    THEN [err |-> "malformed", claims |-> NoJwt.claims]
    ELSE LET t == tokenString[1].jwt
         IN  IF t.alg \notin SigningMethodHMAC
             THEN [err |-> "unexpected signing method", claims |-> t.claims]
             ELSE IF t.sig # HMAC(t.alg, t.claims, jwtSecret)
             THEN [err |-> "signature is invalid", claims |-> t.claims]
             ELSE IF ~(now < t.claims.exp)
             THEN [err |-> "expired", claims |-> t.claims]
             ELSE [err |-> "", claims |-> t.claims]

(***************************************************************************)
(* JwtMiddleware.AuthRequired as a function of the header and the clock:   *)
(* the status it writes (0 when it writes none), whether it aborts the     *)
(* handler chain, and the "userId" it sets in the context (0 when unset).  *)
(***************************************************************************)
Unauthorized(msg) == [status |-> 401, error |-> msg, abort |-> TRUE, userId |-> 0]

AuthRequiredAnyScheme(authHeader, now) ==
    IF authHeader = <<>>
    THEN Unauthorized("Authorization header is required")
    ELSE LET parts == Split(authHeader)
         IN  IF Len(parts) # 2
             THEN Unauthorized("Authorization header format must be Bearer {token}")
             ELSE LET parsed == ParseWithClaims(parts[2], now)
                      userID == ObjectIDFromHex(parsed.claims.userId)
                  IN  IF parsed.err # ""
                      THEN Unauthorized("Invalid or expired token")
                      ELSE IF userID.err
                      THEN Unauthorized("Invalid user ID in token")
                      ELSE [status |-> 0, error |-> "", abort |-> FALSE,
                            userId |-> userID.id]

AuthRequiredNoAbort(authHeader, now) ==
    IF authHeader = <<>>
    THEN Unauthorized("Authorization header is required")
    ELSE LET parts == Split(authHeader)
         IN  IF Len(parts) # 2 \/ parts[1] # <<Bearer>>
             THEN Unauthorized("Authorization header format must be Bearer {token}")
             ELSE LET parsed == ParseWithClaims(parts[2], now)
                      userID == ObjectIDFromHex(parsed.claims.userId)
                  IN  IF parsed.err # ""
                      THEN [Unauthorized("Invalid or expired token")
                                EXCEPT !.abort = FALSE]
                      ELSE IF userID.err
                      THEN Unauthorized("Invalid user ID in token")
                      ELSE [status |-> 0, error |-> "", abort |-> FALSE,
                            userId |-> userID.id]

AuthRequired(authHeader, now) ==
    IF authHeader = <<>>
    THEN Unauthorized("Authorization header is required")
    ELSE LET parts == Split(authHeader)
         IN  IF Len(parts) # 2 \/ parts[1] # <<Bearer>>
             THEN Unauthorized("Authorization header format must be Bearer {token}")
             ELSE LET parsed == ParseWithClaims(parts[2], now)
                      userID == ObjectIDFromHex(parsed.claims.userId)
                  IN  IF parsed.err # ""
                      THEN Unauthorized("Invalid or expired token")
                      ELSE IF userID.err
                      THEN Unauthorized("Invalid user ID in token")
                      ELSE [status |-> 0, error |-> "", abort |-> FALSE,
                            userId |-> userID.id]

(***************************************************************************)
(* What the guard is required to accept: the word "Bearer", one space, and *)
(* one token signed by the server, unexpired, naming an object id.         *)
(***************************************************************************)
SignedByServer(t) ==
    t.alg \in SigningMethodHMAC /\ t.sig = HMAC(t.alg, t.claims, jwtSecret)

CredentialOK(authHeader, now) ==
    /\ Len(authHeader) = 3
    /\ authHeader[1] = Bearer
    /\ authHeader[2] = SP
    /\ authHeader[3].text = "jwt"
    /\ SignedByServer(authHeader[3].jwt)
    /\ now < authHeader[3].jwt.claims.exp
    /\ authHeader[3].jwt.claims.userId.valid

(***************************************************************************)
(* Goal.Progress is a float64; it is held here as the exact fraction       *)
(* <<numerator, denominator>> in lowest terms.                             *)
(***************************************************************************)
RECURSIVE GCD(_, _)
GCD(a, b) == IF b = 0 THEN a ELSE GCD(b, a % b)

Rat(n, d) == LET g == GCD(n, d) IN <<n \div g, d \div g>>

Zero == Rat(0, 1)

completedCount(subTasks) ==
    Cardinality({i \in 1..Len(subTasks) : subTasks[i].completed})

(***************************************************************************)
(* Goal.CalculateProgress                                                  *)
(***************************************************************************)
CalculateProgress(g) ==
    IF Len(g.subTasks) = 0
    THEN [g EXCEPT !.progress = Zero]
    ELSE [g EXCEPT !.progress =
              Rat(completedCount(g.subTasks) * 100, Len(g.subTasks))]

(***************************************************************************)
(* Goal.IsCompleted: the goal as it leaves the call, and the value         *)
(* returned.                                                               *)
(***************************************************************************)
IsCompleted(g) ==
    IF Len(g.subTasks) = 0
    THEN [goal |-> g, ret |-> FALSE]
    ELSE IF \E i \in 1..Len(g.subTasks) : ~g.subTasks[i].completed
    THEN [goal |-> [g EXCEPT !.completed = FALSE], ret |-> FALSE]
    ELSE [goal |-> [g EXCEPT !.completed = TRUE], ret |-> TRUE]

VARIABLES
    clock,      \* time.Now(), in ticks
    eGoal,      \* progress engine: the goal being recomputed
    eInput,     \* progress engine: the goal as first given
    eOnce,      \* progress engine: the goal after the first recomputation
    eStep,      \* progress engine: calls made so far
    tk,         \* token service: the issued token and how it was issued
    hdr,        \* token service: the Authorization header last presented
    verdict,    \* token service: what AuthRequired made of hdr, and when
    nextId,     \* primitive.NewObjectID(): the next fresh object id
    users,      \* the "users" collection
    auth,       \* requests to /api/auth in flight or last answered, per client
    goals,      \* the "goals" collection
    ctx         \* the gin.Context of the request to /api/goals being served

vars == <<clock, eGoal, eInput, eOnce, eStep, tk, hdr, verdict,
          nextId, users, auth, goals, ctx>>

authVars == <<nextId, users, auth>>

goalVars == <<goals, ctx>>

engineVars == <<eGoal, eInput, eOnce, eStep>>

tokenVars == <<tk, hdr, verdict>>

(***************************************************************************)
(* Values the variables hold while their component is not exercised.       *)
(***************************************************************************)
NoGoal == [subTasks |-> <<>>, completed |-> FALSE, progress |-> Zero]

NoToken == [token |-> NoJwt, userID |-> 0, expiryHours |-> 0, now1 |-> 0, now2 |-> 0]

NoVerdict == [at |-> 0, res |-> Unauthorized("")]

EngineIdle == eGoal = NoGoal /\ eInput = NoGoal /\ eOnce = NoGoal /\ eStep = 0

TokenIdle == tk = NoToken /\ hdr = <<>> /\ verdict = NoVerdict

(***************************************************************************)
(* Users.  An e-mail address is its two sides of the "@"; the validator's  *)
(* "email" rule needs both.  bcrypt is an ideal salted hash.               *)
(***************************************************************************)
Email(local, domain) == [local |-> local, domain |-> domain]

NoEmail == Email("", "")

IsEmail(e) == e.local # "" /\ e.domain # ""

Salts == {"salt1", "salt2"}

Bcrypt(password, salt) == [salt |-> salt, digest |-> <<salt, password>>]

\* User.HashPassword
HashPassword(u, salt) == [u EXCEPT !.password = Bcrypt(u.password, salt)]

\* User.ComparePassword: TRUE when it returns an error
ComparePassword(u, password) ==
    u.password # Bcrypt(password, u.password.salt)

\* User.ToResponse
ToResponse(u) ==
    [id |-> u.id, username |-> u.username, email |-> u.email,
     createdAt |-> u.createdAt]

NoUserResponse == [id |-> 0, username |-> "", email |-> NoEmail, createdAt |-> 0]

\* RegisterRequest and its validate tags
ValidRegisterRequest(req) ==
    /\ Len(req.username) >= 3 /\ Len(req.username) <= 30
    /\ IsEmail(req.email)
    /\ Len(req.password) >= 6

\* LoginRequest and its validate tags
ValidLoginRequest(req) == IsEmail(req.email) /\ req.password # ""

NoRequest == [username |-> "", email |-> NoEmail, password |-> ""]

AuthResponse(status, error, token, user) ==
    [status |-> status, error |-> error, token |-> token, user |-> user]

AuthError(status, error) == AuthResponse(status, error, NoJwt, NoUserResponse)

\* dup records, for a Register, whether its username or e-mail was already
\* stored when the request began.  storeErr records that a call of the
\* request to the users collection failed for a reason other than
\* mongo.ErrNoDocuments.
NoAuth ==
    [pc |-> "idle", route |-> "", req |-> NoRequest, dup |-> FALSE,
     storeErr |-> FALSE, resp |-> AuthError(0, "")]

Clients == {"c1", "c2"}

AuthIdle == nextId = 1 /\ users = {} /\ auth = [c \in Clients |-> NoAuth]

(***************************************************************************)
(* Goal routes: the response written to the client and the gin.Context of  *)
(* the request.  Dates are opaque; "zero" is the zero time.Time and "nil"  *)
(* a nil *time.Time.                                                       *)
(***************************************************************************)
GoalResponse(status, error, body) ==
    [status |-> status, error |-> error, goals |-> body]

NoResponse == GoalResponse(0, "", <<>>)

\* stage: "idle" before any request, "handler" once AuthRequired has called
\* c.Next(), "done" once the response is written.  invoked records that a
\* goal handler ran for the request; credOK that the header, when the
\* request arrived, was "Bearer", a space and a token then valid.
NoCtx ==
    [stage |-> "idle", route |-> "", header |-> <<>>, credOK |-> FALSE, userId |-> 0,
     invoked |-> FALSE, param |-> NotHex, resp |-> NoResponse]

GoalIdle == goals = {} /\ ctx = NoCtx

(***************************************************************************)
(* Progress engine on its own: any subtask list up to MaxSubTasks, any     *)
(* previous completed and progress; CalculateProgress then IsCompleted,    *)
(* twice.                                                                  *)
(***************************************************************************)
SubTasks == [completed : BOOLEAN]

SubTaskLists == UNION {[1..n -> SubTasks] : n \in 0..MaxSubTasks}

PriorProgress == {Zero, Rat(50, 1), Rat(100, 1)}

EngineInit ==
    /\ clock = 0
    /\ TokenIdle
    /\ AuthIdle
    /\ GoalIdle
    /\ eGoal \in [subTasks : SubTaskLists, completed : BOOLEAN,
                  progress : PriorProgress]
    /\ eInput = eGoal
    /\ eOnce = NoGoal
    /\ eStep = 0

EngineCalculateProgress ==
    /\ eStep \in {0, 2}
    /\ eGoal' = CalculateProgress(eGoal)
    /\ eStep' = eStep + 1
    /\ UNCHANGED <<clock, eInput, eOnce, tokenVars, authVars, goalVars>>

EngineIsCompleted ==
    /\ eStep \in {1, 3}
    /\ eGoal' = IsCompleted(eGoal).goal
    /\ eOnce' = IF eStep = 1 THEN eGoal' ELSE eOnce
    /\ eStep' = eStep + 1
    /\ UNCHANGED <<clock, eInput, tokenVars, authVars, goalVars>>

EngineNext == EngineCalculateProgress \/ EngineIsCompleted

SpecEngine == EngineInit /\ [][EngineNext]_vars

\* C10: after Recompute (CalculateProgress, then IsCompleted) a goal has
\* progress 0 and completed false when it has no subtasks, and otherwise
\* progress 100 * completed subtasks / subtasks and completed exactly when
\* every subtask is completed, whatever completed and progress were before;
\* a second Recompute changes nothing.
C10_RecomputeResult ==
    LET n == Len(eGoal.subTasks)
        k == completedCount(eGoal.subTasks)
    IN  /\ eStep \in {2, 4} =>
              /\ eGoal.subTasks = eInput.subTasks
              /\ n = 0 => eGoal.progress = Zero /\ eGoal.completed = FALSE
              /\ n > 0 => /\ eGoal.progress[1] * n = 100 * k * eGoal.progress[2]
                          /\ eGoal.completed = (k = n)
        /\ eStep = 4 => eGoal = eOnce

(***************************************************************************)
(* Token service on its own, at sub-second resolution: one token is issued *)
(* by GenerateToken, the clock runs past its expiry, and the token or a    *)
(* tampered copy is presented as "Bearer <token>" at any time.             *)
(***************************************************************************)
TokenClockMax == MaxIssueClock + MaxExpiryHours * Hour + TimePrecision

\* What a client can derive from a token without the server's secret.
Tampered(t) ==
    { SignedString(t.alg, t.claims, attackerSecret),
      SignedString(t.alg, [t.claims EXCEPT !.exp = @ + Hour], attackerSecret),
      [t EXCEPT !.claims.exp = @ + Hour],
      [t EXCEPT !.claims.userId = Hex(1 + (t.claims.userId.id % 3))],
      [t EXCEPT !.alg = "none"] }

TokenInit == clock = 0 /\ EngineIdle /\ TokenIdle /\ AuthIdle /\ GoalIdle

TokenTick ==
    /\ clock < TokenClockMax
    /\ clock' = clock + 1
    /\ UNCHANGED <<engineVars, tokenVars, authVars, goalVars>>

\* GenerateToken reads the clock twice; it may advance in between.
TokenIssue(userID, expiryHours, d) ==
    /\ tk = NoToken
    /\ clock <= MaxIssueClock
    /\ tk' = [token |-> GenerateToken(userID, expiryHours, clock, clock + d),
              userID |-> userID, expiryHours |-> expiryHours,
              now1 |-> clock, now2 |-> clock + d]
    /\ clock' = clock + d
    /\ UNCHANGED <<engineVars, hdr, verdict, authVars, goalVars>>

TokenVerify(t) ==
    /\ tk # NoToken
    /\ hdr' = <<Bearer, SP, TokenString(t)>>
    /\ verdict' = [at |-> clock, res |-> AuthRequired(hdr', clock)]
    /\ UNCHANGED <<clock, engineVars, tk, authVars, goalVars>>

TokenNext ==
    \/ TokenTick
    \/ \E userID \in ObjectIDs, expiryHours \in 1..MaxExpiryHours, d \in 0..1 :
           TokenIssue(userID, expiryHours, d)
    \/ \E t \in {tk.token} \cup Tampered(tk.token) : TokenVerify(t)

SpecToken == TokenInit /\ [][TokenNext]_vars

(***************************************************************************)
(* The guard on its own: a token is issued, and any header of at most      *)
(* MaxHeaderLen atoms is presented, before or after the token's expiry.    *)
(***************************************************************************)
HeaderAtoms(t) ==
    { SP, Bearer, Word("bearer"), TokenString(t),
      TokenString(SignedString(t.alg, t.claims, attackerSecret)) }

Headers(t) == UNION {[1..n -> HeaderAtoms(t)] : n \in 0..MaxHeaderLen}

GuardIssue(userID, expiryHours) ==
    /\ tk = NoToken
    /\ tk' = [token |-> GenerateToken(userID, expiryHours, clock, clock),
              userID |-> userID, expiryHours |-> expiryHours,
              now1 |-> clock, now2 |-> clock]
    /\ UNCHANGED <<clock, engineVars, hdr, verdict, authVars, goalVars>>

GuardExpire ==
    /\ tk # NoToken
    /\ clock < tk.token.claims.exp
    /\ clock' = tk.token.claims.exp
    /\ UNCHANGED <<engineVars, tokenVars, authVars, goalVars>>

GuardRequest(authHeader) ==
    /\ tk # NoToken
    /\ hdr' = authHeader
    /\ verdict' = [at |-> clock, res |-> AuthRequired(authHeader, clock)]
    /\ UNCHANGED <<clock, engineVars, tk, authVars, goalVars>>

GuardNext ==
    \/ \E userID \in ObjectIDs, expiryHours \in 1..MaxExpiryHours :
           GuardIssue(userID, expiryHours)
    \/ GuardExpire
    \/ \E authHeader \in Headers(tk.token) : GuardRequest(authHeader)

SpecGuard == TokenInit /\ [][GuardNext]_vars

(***************************************************************************)
(* Claims about the token service and the guard.                           *)
(***************************************************************************)
Accepted(v, userID) ==
    v.res.abort = FALSE /\ v.res.status = 0 /\ v.res.userId = userID

Rejected(v) == v.res.abort = TRUE /\ v.res.status = 401 /\ v.res.userId = 0

\* C7: a token issued for id with a ttl is accepted and yields id at every
\* time before issued_at + ttl and rejected at every time from
\* issued_at + ttl on; a token whose signature does not verify is rejected
\* at every time.
C7_LifetimeFromIssuedAt ==
    verdict # NoVerdict =>
        LET t == hdr[3].jwt
            issued_at == tk.token.claims.iat
            ttl == tk.expiryHours * Hour
        IN  /\ t = tk.token /\ verdict.at < issued_at + ttl
                => Accepted(verdict, tk.userID)
            /\ t = tk.token /\ verdict.at >= issued_at + ttl
                => Rejected(verdict)
            /\ ~SignedByServer(t) => Rejected(verdict)

\* What GenerateToken and AuthRequired do guarantee: the token is accepted
\* and yields id at every time before its expires_at and rejected from
\* expires_at on, where expires_at is the first clock reading of
\* GenerateToken, cut to whole seconds, plus the ttl; issued_at comes from a
\* second, later reading, so expires_at is at most issued_at + ttl and
\* equals it when both readings fall in the same second.
LifetimeFromExpiresAt ==
    verdict # NoVerdict =>
        LET t == hdr[3].jwt
            expires_at == tk.token.claims.exp
            issued_at == tk.token.claims.iat
            ttl == tk.expiryHours * Hour
        IN  /\ t = tk.token /\ verdict.at < expires_at
                => Accepted(verdict, tk.userID)
            /\ t = tk.token /\ verdict.at >= expires_at
                => Rejected(verdict)
            /\ expires_at = NewNumericDate(tk.now1) + ttl
            /\ expires_at <= issued_at + ttl
            /\ NewNumericDate(tk.now1) = NewNumericDate(tk.now2)
                => expires_at = issued_at + ttl
            /\ ~SignedByServer(t) => Rejected(verdict)

\* The issued token itself has been presented at its expiry time or later
\* and rejected.
ExpiredTokenRejected ==
    /\ verdict # NoVerdict
    /\ hdr[3].jwt = tk.token
    /\ verdict.at >= tk.token.claims.exp
    /\ Rejected(verdict)

\* C8: the guard accepts a header exactly when it is the word "Bearer", one
\* space, and one token that verifies at that time, and then yields the
\* token's identity; every other shape (empty, bare token, lower-case
\* scheme, more or fewer than two parts) is answered Unauthorized.
C8_BearerShape ==
    verdict # NoVerdict =>
        LET wellFormed == CredentialOK(hdr, verdict.at)
        IN  /\ wellFormed => Accepted(verdict, hdr[3].jwt.claims.userId.id)
            /\ ~wellFormed => Rejected(verdict)

\* C8 witness: a lower-case "bearer" scheme in front of the valid token has
\* been presented before expiry and refused.
C8_Witness ==
    /\ verdict # NoVerdict
    /\ hdr = <<Word("bearer"), SP, TokenString(tk.token)>>
    /\ verdict.at < tk.token.claims.exp
    /\ Rejected(verdict)

(***************************************************************************)
(* The auth routes.  Each client has at most one request in flight; the    *)
(* requests of different clients interleave at the store calls.            *)
(***************************************************************************)
AuthRequest(username, email, password) ==
    [username |-> username, email |-> email, password |-> password]

RegisterRequests ==
    { AuthRequest("alice", Email("a", "x.com"), "secret1"),
      AuthRequest("alice", Email("b", "x.com"), "secret1"),
      AuthRequest("bob", Email("a", "x.com"), "secret2"),
      AuthRequest("bob", Email("b", "x.com"), "secret2"),
      AuthRequest("al", Email("a", "x.com"), "secret1"),
      AuthRequest("alice", Email("nope", ""), "secret1"),
      AuthRequest("alice", Email("a", "x.com"), "short") }

LoginRequests ==
    { AuthRequest("", Email("a", "x.com"), "secret1"),
      AuthRequest("", Email("a", "x.com"), "secret2"),
      AuthRequest("", Email("b", "x.com"), "secret1"),
      AuthRequest("", Email("b", "x.com"), "secret2"),
      AuthRequest("", Email("nope", ""), "secret1"),
      AuthRequest("", Email("a", "x.com"), "") }

InFlight == {c \in Clients : auth[c].pc \in {"username", "insert"}}

AuthInit == clock = 0 /\ EngineIdle /\ TokenIdle /\ AuthIdle /\ GoalIdle

\* Register, up to the lookup by e-mail
RegisterBegin(c, req) ==
    /\ auth[c].pc \in {"idle", "done"}
    /\ Cardinality(users) + Cardinality(InFlight) < MaxUsers
    /\ LET dup == \E u \in users : u.email = req.email \/ u.username = req.username
           start == [pc |-> "username", route |-> "register", req |-> req,
                     dup |-> dup, storeErr |-> FALSE,
                     resp |-> AuthError(0, "")]
       IN  auth' = [auth EXCEPT ![c] =
               IF ~ValidRegisterRequest(req)
               THEN [start EXCEPT !.pc = "done",
                                  !.resp = AuthError(400, "validation")]
               ELSE IF \E u \in users : u.email = req.email
               THEN [start EXCEPT !.pc = "done",
                                  !.resp = AuthError(409, "User with this email already exists")]
               ELSE start]
    /\ UNCHANGED <<clock, engineVars, tokenVars, nextId, users, goalVars>>

RegisterCheckUsernameNoConflict(c) ==
    /\ auth[c].pc = "username"
    /\ auth' = [auth EXCEPT ![c].pc = "insert"]
    /\ UNCHANGED <<clock, engineVars, tokenVars, nextId, users, goalVars>>

\* Register: the lookup by username
RegisterCheckUsername(c) ==
    /\ auth[c].pc = "username"
    /\ auth' = [auth EXCEPT ![c] =
           IF \E u \in users : u.username = auth[c].req.username
           THEN [@ EXCEPT !.pc = "done",
                          !.resp = AuthError(409, "Username is already taken")]
           ELSE [@ EXCEPT !.pc = "insert"]]
    /\ UNCHANGED <<clock, engineVars, tokenVars, nextId, users, goalVars>>

\* Register: hash, insert, issue the token, answer
RegisterInsert(c, salt) ==
    /\ auth[c].pc = "insert"
    /\ LET req == auth[c].req
           now == clock
           user == HashPassword([id |-> nextId, username |-> req.username,
                                 email |-> req.email, password |-> req.password,
                                 createdAt |-> now, updatedAt |-> now], salt)
           token == GenerateToken(user.id, TokenExpiryHours, clock, clock)
       IN  /\ users' = users \cup {user}
           /\ nextId' = nextId + 1
           /\ auth' = [auth EXCEPT ![c].pc = "done",
                                   ![c].resp = AuthResponse(201, "", token, ToResponse(user))]
    /\ UNCHANGED <<clock, engineVars, tokenVars, goalVars>>

LoginUserNotFound(c, req) ==
    /\ auth[c].pc \in {"idle", "done"}
    /\ LET start == [pc |-> "done", route |-> "login", req |-> req,
                     dup |-> FALSE, storeErr |-> FALSE,
                     resp |-> AuthError(0, "")]
           found == {u \in users : u.email = req.email}
       IN  IF ~ValidLoginRequest(req)
           THEN auth' = [auth EXCEPT ![c] =
                    [start EXCEPT !.resp = AuthError(400, "validation")]]
           ELSE IF found = {}
           THEN auth' = [auth EXCEPT ![c] =
                    [start EXCEPT !.resp = AuthError(404, "User not found")]]
           ELSE \E user \in found :
                    auth' = [auth EXCEPT ![c] =
                        IF ComparePassword(user, req.password)
                        THEN [start EXCEPT !.resp =
                                  AuthError(401, "Invalid email or password")]
                        ELSE [start EXCEPT !.resp =
                                  AuthResponse(200, "",
                                      GenerateToken(user.id, TokenExpiryHours, clock, clock),
                                      ToResponse(user))]]
    /\ UNCHANGED <<clock, engineVars, tokenVars, nextId, users, goalVars>>

\* Login.  FindOne returns one of the documents that match.
Login(c, req) ==
    /\ auth[c].pc \in {"idle", "done"}
    /\ LET start == [pc |-> "done", route |-> "login", req |-> req,
                     dup |-> FALSE, storeErr |-> FALSE,
                     resp |-> AuthError(0, "")]
           found == {u \in users : u.email = req.email}
       IN  IF ~ValidLoginRequest(req)
           THEN auth' = [auth EXCEPT ![c] =
                    [start EXCEPT !.resp = AuthError(400, "validation")]]
           ELSE IF found = {}
           THEN auth' = [auth EXCEPT ![c] =
                    [start EXCEPT !.resp = AuthError(401, "Invalid email or password")]]
           ELSE \E user \in found :
                    auth' = [auth EXCEPT ![c] =
                        IF ComparePassword(user, req.password)
                        THEN [start EXCEPT !.resp =
                                  AuthError(401, "Invalid email or password")]
                        ELSE [start EXCEPT !.resp =
                                  AuthResponse(200, "",
                                      GenerateToken(user.id, TokenExpiryHours, clock, clock),
                                      ToResponse(user))]]
    /\ UNCHANGED <<clock, engineVars, tokenVars, nextId, users, goalVars>>

AuthNext ==
    \/ \E c \in Clients, req \in RegisterRequests : RegisterBegin(c, req)
    \/ \E c \in Clients : RegisterCheckUsername(c)
    \/ \E c \in Clients, salt \in Salts : RegisterInsert(c, salt)
    \/ \E c \in Clients, req \in LoginRequests : Login(c, req)

SpecAuth == AuthInit /\ [][AuthNext]_vars

(***************************************************************************)
(* Claims about the auth routes.                                           *)
(***************************************************************************)
\* C4: no two stored identities share a username and no two share an
\* e-mail, in every reachable state, however Register requests interleave.
C4_UniqueIdentities ==
    \A u, v \in users :
        u # v => u.username # v.username /\ u.email # v.email

\* A step of client c's request on the given route.
StepOf(c, route) == auth'[c] # auth[c] /\ auth'[c].route = route

C6_RegisterThenLogin ==
    [][\A c \in Clients :
          /\ StepOf(c, "register") /\ auth[c].pc = "insert"
                => /\ auth'[c].resp.status = 201
                   /\ auth'[c].resp.user.id = nextId
                   /\ auth'[c].resp.token.claims.userId = Hex(nextId)
                   /\ \E u \in users' \ users :
                          /\ u.id = nextId
                          /\ u.email = auth[c].req.email
                          /\ ~ComparePassword(u, auth[c].req.password)
          /\ StepOf(c, "login") /\ ValidLoginRequest(auth'[c].req) =>
                \A u \in users :
                    u.email = auth'[c].req.email =>
                        IF ComparePassword(u, auth'[c].req.password)
                        THEN auth'[c].resp.status = 401
                        ELSE /\ auth'[c].resp.status = 200
                             /\ auth'[c].resp.user.id = u.id
                             /\ auth'[c].resp.token.claims.userId = Hex(u.id)]_vars

\* C13: a well-formed Login for an e-mail with no stored identity and one
\* for a stored e-mail with a wrong password are answered alike: 401 with
\* the one message "Invalid email or password", no token and no identity,
\* never 404; every Login that does not succeed gets exactly that answer.
C13_LoginFailuresAlike ==
    [][\A c \in Clients :
          StepOf(c, "login") /\ ValidLoginRequest(auth'[c].req) =>
              LET req == auth'[c].req
                  found == {u \in users : u.email = req.email}
                  failure == AuthError(401, "Invalid email or password")
              IN  /\ found = {} => auth'[c].resp = failure
                  /\ (found # {} /\ \A u \in found : ComparePassword(u, req.password))
                        => auth'[c].resp = failure
                  /\ auth'[c].resp.status # 200 => auth'[c].resp = failure]_vars

\* C13 witness: one client's Login for an unregistered e-mail and another's
\* for a registered e-mail with a wrong password stand answered, alike.
C13_Witness ==
    \E c, d \in Clients :
        /\ auth[c].route = "login" /\ auth[d].route = "login"
        /\ auth[c].pc = "done" /\ auth[d].pc = "done"
        /\ ValidLoginRequest(auth[c].req) /\ ValidLoginRequest(auth[d].req)
        /\ \A u \in users : u.email # auth[c].req.email
        /\ \E u \in users : u.email = auth[d].req.email
                            /\ ComparePassword(u, auth[d].req.password)
        /\ auth[c].resp = auth[d].resp
        /\ auth[c].resp.status = 401

(***************************************************************************)
(* The auth routes with a users collection whose calls may fail (the       *)
(* driver returns an error other than mongo.ErrNoDocuments).               *)
(***************************************************************************)
\* Register: the lookup by e-mail fails; err is not nil, so the handler goes
\* on to the lookup by username.
RegisterBeginFail(c, req) ==
    /\ auth[c].pc \in {"idle", "done"}
    /\ Cardinality(users) + Cardinality(InFlight) < MaxUsers
    /\ ValidRegisterRequest(req)
    /\ auth' = [auth EXCEPT ![c] =
           [pc |-> "username", route |-> "register", req |-> req,
            dup |-> \E u \in users : u.email = req.email \/ u.username = req.username,
            storeErr |-> TRUE, resp |-> AuthError(0, "")]]
    /\ UNCHANGED <<clock, engineVars, tokenVars, nextId, users, goalVars>>

\* Register: the lookup by username fails; err is not nil, so the handler
\* goes on to create the user.
RegisterCheckUsernameFail(c) ==
    /\ auth[c].pc = "username"
    /\ auth' = [auth EXCEPT ![c].pc = "insert", ![c].storeErr = TRUE]
    /\ UNCHANGED <<clock, engineVars, tokenVars, nextId, users, goalVars>>

\* Register: InsertOne fails
RegisterInsertFail(c) ==
    /\ auth[c].pc = "insert"
    /\ auth' = [auth EXCEPT ![c].pc = "done", ![c].storeErr = TRUE,
                            ![c].resp = AuthError(500, "Failed to create user")]
    /\ UNCHANGED <<clock, engineVars, tokenVars, nextId, users, goalVars>>

\* Login: FindOne fails
LoginFail(c, req) ==
    /\ auth[c].pc \in {"idle", "done"}
    /\ ValidLoginRequest(req)
    /\ auth' = [auth EXCEPT ![c] =
           [pc |-> "done", route |-> "login", req |-> req, dup |-> FALSE,
            storeErr |-> TRUE,
            resp |-> AuthError(401, "Invalid email or password")]]
    /\ UNCHANGED <<clock, engineVars, tokenVars, nextId, users, goalVars>>

AuthFailNext ==
    \/ AuthNext
    \/ \E c \in Clients, req \in RegisterRequests : RegisterBeginFail(c, req)
    \/ \E c \in Clients : RegisterCheckUsernameFail(c)
    \/ \E c \in Clients : RegisterInsertFail(c)
    \/ \E c \in Clients, req \in LoginRequests : LoginFail(c, req)

SpecAuthFail == AuthInit /\ [][AuthFailNext]_vars

\* C14: once a call of a request to the users collection has failed for a
\* reason other than "no matching document", the request ends there and is
\* answered with a server error (5xx), and no step of it writes to the
\* collection: a failed uniqueness lookup of Register does not go on to the
\* insert, and a failed lookup of Login is not answered 401.
C14_StoreFailuresSurfaced ==
    [][\A c \in Clients :
          auth'[c] # auth[c] /\ auth'[c].storeErr
            => /\ auth'[c].pc = "done"
               /\ auth'[c].resp.status \in 500..599
               /\ users' = users]_vars

(***************************************************************************)
(* The goal routes behind AuthRequired.  Two identities registered one     *)
(* token lifetime ago: the tokens of their registration have just expired, *)
(* the tokens of a login now are fresh.  Requests are served one at a      *)
(* time.                                                                   *)
(***************************************************************************)
Registered(id, username, email, password, salt) ==
    HashPassword([id |-> id, username |-> username, email |-> email,
                  password |-> password, createdAt |-> 0, updatedAt |-> 0], salt)

Alice == Registered(1, "alice", Email("a", "x.com"), "secret1", "salt1")

Bob == Registered(2, "bob", Email("b", "x.com"), "secret2", "salt2")

Start == TokenExpiryHours * Hour

OldToken(u) == GenerateToken(u.id, TokenExpiryHours, u.createdAt, u.createdAt)

FreshToken(u) == GenerateToken(u.id, TokenExpiryHours, Start, Start)

ForgedToken(u) ==
    SignedString("HS256", FreshToken(u).claims, attackerSecret)

BearerHeader(t) == <<Bearer, SP, TokenString(t)>>

GoalHeaders ==
    { <<>>,
      BearerHeader(FreshToken(Alice)),
      BearerHeader(FreshToken(Bob)),
      BearerHeader(OldToken(Alice)),
      BearerHeader(ForgedToken(Alice)),
      <<TokenString(FreshToken(Bob))>> }

Routes == {"create", "list", "get", "update", "delete"}

CreateGoalRequests ==
    { [title |-> "Learn Go", description |-> "", startDate |-> "s1", endDate |-> "nil"],
      [title |-> "", description |-> "d1", startDate |-> "s1", endDate |-> "nil"] }

UpdateGoalRequests ==
    { [title |-> "Run", description |-> "", startDate |-> "zero", endDate |-> "nil",
       completed |-> FALSE],
      [title |-> "", description |-> "d2", startDate |-> "s2", endDate |-> "e2",
       completed |-> TRUE] }

FirstGoalId == Cardinality({Alice, Bob}) + 1

GoalIdParams == {Hex(FirstGoalId + i) : i \in 0..(MaxGoals - 1)} \cup {NotHex}

GoalsInit ==
    /\ clock = Start
    /\ EngineIdle /\ TokenIdle /\ GoalIdle
    /\ nextId = FirstGoalId
    /\ users = {Alice, Bob}
    /\ auth = [c \in Clients |-> NoAuth]

GoalsTick ==
    /\ clock < Start + MaxClock
    /\ clock' = clock + 1
    /\ UNCHANGED <<engineVars, tokenVars, authVars, goalVars>>

\* A request to /api/goals arrives and runs through AuthRequired.
ServeGoalsWithin(maxGoals, route, authHeader) ==
    /\ ctx.stage \in {"idle", "done"}
    /\ route = "create" => nextId < FirstGoalId + maxGoals
    /\ LET res == AuthRequired(authHeader, clock)
       IN  ctx' = [stage |-> IF res.abort THEN "done" ELSE "handler",
                   route |-> route, header |-> authHeader,
                   credOK |-> CredentialOK(authHeader, clock),
                   userId |-> res.userId, invoked |-> FALSE, param |-> NotHex,
                   resp |-> GoalResponse(res.status, res.error, <<>>)]
    /\ UNCHANGED <<clock, engineVars, tokenVars, authVars, goals>>

ServeGoals(route, authHeader) == ServeGoalsWithin(MaxGoals, route, authHeader)

\* What a handler writes, and that it ran.
Answer(param, resp) ==
    ctx' = [ctx EXCEPT !.stage = "done", !.invoked = TRUE, !.param = param,
                       !.resp = resp]

NoUserID == GoalResponse(401, "User ID not found in context", <<>>)

CreateGoal(req) ==
    /\ ctx.stage = "handler" /\ ctx.route = "create"
    /\ IF req.title = ""
       THEN Answer(NotHex, GoalResponse(400, "validation", <<>>))
            /\ UNCHANGED <<goals, nextId>>
       ELSE IF ctx.userId = 0
       THEN Answer(NotHex, NoUserID) /\ UNCHANGED <<goals, nextId>>
       ELSE LET now == clock
                goal == [id |-> nextId, userId |-> ctx.userId,
                         title |-> req.title, description |-> req.description,
                         subTasks |-> <<>>, startDate |-> req.startDate,
                         endDate |-> req.endDate, completed |-> FALSE,
                         progress |-> Zero, createdAt |-> now, updatedAt |-> now]
            IN  /\ goals' = goals \cup {goal}
                /\ nextId' = nextId + 1
                /\ Answer(NotHex, GoalResponse(201, "", <<goal>>))
    /\ UNCHANGED <<clock, engineVars, tokenVars, users, auth>>

\* The filter of GetGoal's FindOne
FindOneFilterAnyOwner(goalID, userID) == {g \in goals : g.id = goalID}

FindOneFilter(goalID, userID) ==
    {g \in goals : g.id = goalID /\ g.userId = userID}

GetGoal(id) ==
    /\ ctx.stage = "handler" /\ ctx.route = "get"
    /\ LET goalID == ObjectIDFromHex(id)
           found == FindOneFilter(goalID.id, ctx.userId)
       IN  IF goalID.err
           THEN Answer(id, GoalResponse(400, "Invalid goal ID", <<>>))
           ELSE IF ctx.userId = 0
           THEN Answer(id, NoUserID)
           ELSE IF found = {}
           THEN Answer(id, GoalResponse(404, "Goal not found", <<>>))
           ELSE \E goal \in found : Answer(id, GoalResponse(200, "", <<goal>>))
    /\ UNCHANGED <<clock, engineVars, tokenVars, authVars, goals>>

\* Sequences holding each element of a set once, newest createdAt first
RECURSIVE SortedByCreatedAtDesc(_)
SortedByCreatedAtDesc(S) ==
    IF S = {} THEN {<<>>}
    ELSE UNION { {<<g>> \o rest : rest \in SortedByCreatedAtDesc(S \ {g})} :
                 g \in {h \in S : \A k \in S : h.createdAt >= k.createdAt} }

ListGoalsAnyOwner ==
    /\ ctx.stage = "handler" /\ ctx.route = "list"
    /\ IF ctx.userId = 0
       THEN Answer(NotHex, NoUserID)
       ELSE \E found \in SortedByCreatedAtDesc(goals) :
                Answer(NotHex, GoalResponse(200, "", found))
    /\ UNCHANGED <<clock, engineVars, tokenVars, authVars, goals>>

ListGoals ==
    /\ ctx.stage = "handler" /\ ctx.route = "list"
    /\ IF ctx.userId = 0
       THEN Answer(NotHex, NoUserID)
       ELSE \E found \in SortedByCreatedAtDesc({g \in goals : g.userId = ctx.userId}) :
                Answer(NotHex, GoalResponse(200, "", found))
    /\ UNCHANGED <<clock, engineVars, tokenVars, authVars, goals>>

\* The $set document of UpdateGoal, applied to the matched goal
ApplyUpdate(g, req, now) ==
    [g EXCEPT !.updatedAt = now,
              !.title = IF req.title # "" THEN req.title ELSE @,
              !.description = IF req.description # "" THEN req.description ELSE @,
              !.startDate = IF req.startDate # "zero" THEN req.startDate ELSE @,
              !.endDate = IF req.endDate # "nil" THEN req.endDate ELSE @,
              !.completed = req.completed]

\* The filter of UpdateGoal's UpdateOne
UpdateOneFilterAnyOwner(goalID, userID) == {g \in goals : g.id = goalID}

UpdateOneFilter(goalID, userID) ==
    {g \in goals : g.id = goalID /\ g.userId = userID}

\* UpdateOne, then FindOne of the updated goal
UpdateGoal(id, req) ==
    /\ ctx.stage = "handler" /\ ctx.route = "update"
    /\ LET goalID == ObjectIDFromHex(id)
           matched == UpdateOneFilter(goalID.id, ctx.userId)
       IN  IF goalID.err
           THEN Answer(id, GoalResponse(400, "Invalid goal ID", <<>>))
                /\ UNCHANGED goals
           ELSE IF ctx.userId = 0
           THEN Answer(id, NoUserID) /\ UNCHANGED goals
           ELSE IF matched = {}
           THEN Answer(id, GoalResponse(404, "Goal not found", <<>>))
                /\ UNCHANGED goals
           ELSE \E g \in matched :
                    LET updated == ApplyUpdate(g, req, clock)
                    IN  /\ goals' = (goals \ {g}) \cup {updated}
                        /\ Answer(id, GoalResponse(200, "", <<updated>>))
    /\ UNCHANGED <<clock, engineVars, tokenVars, authVars>>

DeleteGoalSoft(id) ==
    /\ ctx.stage = "handler" /\ ctx.route = "delete"
    /\ LET goalID == ObjectIDFromHex(id)
       IN  IF goalID.err
           THEN Answer(id, GoalResponse(400, "Invalid goal ID", <<>>))
           ELSE IF ctx.userId = 0
           THEN Answer(id, NoUserID)
           ELSE IF {g \in goals : g.id = goalID.id /\ g.userId = ctx.userId} = {}
           THEN Answer(id, GoalResponse(404, "Goal not found", <<>>))
           ELSE Answer(id, GoalResponse(200, "Goal deleted successfully", <<>>))
    /\ UNCHANGED <<clock, engineVars, tokenVars, authVars, goals>>

\* The filter of DeleteGoal's DeleteOne
DeleteOneFilter(goalID, userID) ==
    {g \in goals : g.id = goalID /\ g.userId = userID}

DeleteGoal(id) ==
    /\ ctx.stage = "handler" /\ ctx.route = "delete"
    /\ LET goalID == ObjectIDFromHex(id)
           matched == DeleteOneFilter(goalID.id, ctx.userId)
       IN  IF goalID.err
           THEN Answer(id, GoalResponse(400, "Invalid goal ID", <<>>))
                /\ UNCHANGED goals
           ELSE IF ctx.userId = 0
           THEN Answer(id, NoUserID) /\ UNCHANGED goals
           ELSE IF matched = {}
           THEN Answer(id, GoalResponse(404, "Goal not found", <<>>))
                /\ UNCHANGED goals
           ELSE \E g \in matched :
                    /\ goals' = goals \ {g}
                    /\ Answer(id, GoalResponse(200, "Goal deleted successfully", <<>>))
    /\ UNCHANGED <<clock, engineVars, tokenVars, authVars>>

GoalsNext ==
    \/ GoalsTick
    \/ \E route \in Routes, authHeader \in GoalHeaders : ServeGoals(route, authHeader)
    \/ \E req \in CreateGoalRequests : CreateGoal(req)
    \/ \E id \in GoalIdParams : GetGoal(id)
    \/ ListGoals
    \/ \E id \in GoalIdParams, req \in UpdateGoalRequests : UpdateGoal(id, req)
    \/ \E id \in GoalIdParams : DeleteGoal(id)

SpecGoals == GoalsInit /\ [][GoalsNext]_vars

(***************************************************************************)
(* Claims about the goal routes.                                           *)
(***************************************************************************)
\* The handler of the given route has just answered the request.
HandlerStep(route) ==
    ctx.stage = "handler" /\ ctx'.stage = "done" /\ ctx'.invoked
        /\ ctx'.route = route

Served(route) == ctx.stage = "done" /\ ctx.invoked /\ ctx.route = route

OwnedByAnother(param, userID) ==
    \E g \in goals : Hex(g.id) = param /\ g.userId # userID

\* C1: GetGoal never returns a goal of another identity: when the goal with
\* the requested id belongs to someone else the answer is 404 "Goal not
\* found" with no goal in it, and any goal it does return is the caller's.
C1_ReadIsolation ==
    Served("get") =>
        /\ \A i \in 1..Len(ctx.resp.goals) : ctx.resp.goals[i].userId = ctx.userId
        /\ OwnedByAnother(ctx.param, ctx.userId)
              => ctx.resp = GoalResponse(404, "Goal not found", <<>>)

\* C1 witness: an identity asked for an existing goal of another identity
\* and was answered 404.
C1_Witness ==
    /\ Served("get")
    /\ OwnedByAnother(ctx.param, ctx.userId)
    /\ ctx.resp.status = 404

\* C2: UpdateGoal and DeleteGoal by an identity that does not own the goal
\* are answered 404 and leave the goals collection exactly as it was; no
\* step ever changes the owner of a stored goal.
C2_WriteIsolation ==
    [][/\ \A route \in {"update", "delete"} :
              HandlerStep(route) /\ OwnedByAnother(ctx'.param, ctx.userId)
                => /\ ctx'.resp = GoalResponse(404, "Goal not found", <<>>)
                   /\ goals' = goals
       /\ \A g \in goals, h \in goals' : g.id = h.id => h.userId = g.userId]_vars

\* C2 witness: an identity tried to update an existing goal of another
\* identity and was answered 404.
C2_Witness ==
    /\ Served("update")
    /\ OwnedByAnother(ctx.param, ctx.userId)
    /\ ctx.resp.status = 404

\* C3: every goal returned by CreateGoal, GetGoal, ListGoals or UpdateGoal
\* has progress and completed as its subtasks determine them: progress 0
\* and completed false when there are none, otherwise the completed share
\* of 100 and completed exactly when all are.
C3_DerivedStateConsistent ==
    \A route \in {"create", "get", "list", "update"} :
        Served(route) =>
            \A i \in 1..Len(ctx.resp.goals) :
                LET g == ctx.resp.goals[i]
                    n == Len(g.subTasks)
                    k == completedCount(g.subTasks)
                IN  /\ n = 0 => g.progress = Zero /\ g.completed = FALSE
                    /\ n > 0 => /\ g.progress[1] * n = 100 * k * g.progress[2]
                                /\ g.completed = (k = n)

\* C9: a request to a goal route whose credential is absent, malformed or
\* rejected is answered 401 without any goal handler running and without
\* any change to the goals collection; a handler runs only for a request
\* that AuthRequired has passed on with the identity of its token set.
C9_GuardShortCircuit ==
    [][/\ ctx'.stage # "idle" /\ ~ctx'.credOK
            => /\ ctx'.stage = "done"
               /\ ctx'.resp.status = 401
               /\ ~ctx'.invoked
               /\ ctx'.userId = 0
               /\ goals' = goals
       /\ ctx'.invoked /\ ~ctx.invoked
            => /\ ctx.stage = "handler"
               /\ ctx.credOK
               /\ ctx.header = ctx'.header
               /\ ctx.userId = ctx.header[3].jwt.claims.userId.id
               /\ ctx'.userId = ctx.userId]_vars

\* C9 witness: a delete request carrying an expired token was answered 401
\* with no handler run, while goals were stored.
C9_Witness ==
    /\ ctx.stage = "done" /\ ctx.route = "delete"
    /\ ctx.header = BearerHeader(OldToken(Alice))
    /\ ~ctx.credOK /\ ~ctx.invoked
    /\ ctx.resp.status = 401
    /\ \E g \in goals : g.userId = Alice.id

(***************************************************************************)
(* The goal routes with room for MaxListGoals goals: both identities       *)
(* create, get, list, update and delete, each with a valid token.          *)
(***************************************************************************)
ListHeaders == {BearerHeader(FreshToken(Alice)), BearerHeader(FreshToken(Bob))}

ListRoutes == Routes

ListIdParams == {Hex(FirstGoalId + i) : i \in 0..(MaxListGoals - 1)}

ListCreateRequest ==
    [title |-> "Learn Go", description |-> "", startDate |-> "s1", endDate |-> "nil"]

ListUpdateRequest ==
    [title |-> "Run", description |-> "", startDate |-> "zero", endDate |-> "nil",
     completed |-> TRUE]

ListServe(route, authHeader) == ServeGoalsWithin(MaxListGoals, route, authHeader)

ListNext ==
    \/ GoalsTick
    \/ \E route \in ListRoutes, authHeader \in ListHeaders : ListServe(route, authHeader)
    \/ CreateGoal(ListCreateRequest)
    \/ \E id \in ListIdParams : GetGoal(id)
    \/ ListGoals
    \/ \E id \in ListIdParams : UpdateGoal(id, ListUpdateRequest)
    \/ \E id \in ListIdParams : DeleteGoal(id)

SpecList == GoalsInit /\ [][ListNext]_vars

\* C12: ListGoals returns exactly the stored goals of the calling identity,
\* each once, none of anyone else's and none of the caller's missing, with
\* createdAt never increasing along the list, after any creates, updates and
\* deletes by any identities.
C12_ListScopedAndOrdered ==
    Served("list") =>
        LET found == ctx.resp.goals
        IN  /\ ctx.resp.status = 200
            /\ {found[i] : i \in 1..Len(found)}
                   = {g \in goals : g.userId = ctx.userId}
            /\ Len(found) = Cardinality({g \in goals : g.userId = ctx.userId})
            /\ \A i, j \in 1..Len(found) :
                   i < j => found[i].createdAt >= found[j].createdAt

\* C12 witness: an identity was listed two goals created at different times,
\* the newer first.
C12_Witness ==
    /\ Served("list")
    /\ Len(ctx.resp.goals) = 2
    /\ ctx.resp.goals[1].createdAt > ctx.resp.goals[2].createdAt

\* C11: UpdateGoal by the owner applies only the fields the request
\* supplies (non-default values); every field it does not supply, completed
\* included, keeps its stored value, updatedAt apart; and id, userId,
\* subTasks, progress and createdAt are never changed by UpdateGoal.
C11_PartialUpdateFrame ==
    [][\A id \in GoalIdParams, req \in UpdateGoalRequests :
          UpdateGoal(id, req) /\ ctx'.resp.status = 200
            => \E g \in goals :
                 LET h == ctx'.resp.goals[1]
                 IN  /\ Hex(g.id) = id /\ g.userId = ctx.userId
                     /\ goals' = (goals \ {g}) \cup {h}
                     /\ h.title = IF req.title # "" THEN req.title ELSE g.title
                     /\ h.description = IF req.description # ""
                                        THEN req.description ELSE g.description
                     /\ h.startDate = IF req.startDate # "zero"
                                      THEN req.startDate ELSE g.startDate
                     /\ h.endDate = IF req.endDate # "nil"
                                    THEN req.endDate ELSE g.endDate
                     /\ h.completed = IF req.completed THEN TRUE ELSE g.completed
                     /\ h.id = g.id /\ h.userId = g.userId
                     /\ h.subTasks = g.subTasks /\ h.progress = g.progress
                     /\ h.createdAt = g.createdAt]_vars

\* Ids of goals that were created and are no longer stored: ids are handed
\* out in sequence from FirstGoalId, one for each goal created.
Deleted == {id \in FirstGoalId..(nextId - 1) : \A g \in goals : g.id # id}

\* C15: a DeleteGoal answered with success has removed exactly the owner's
\* goal of that id and left every other stored goal as it was; a deleted
\* goal never returns to the store; every later GetGoal, UpdateGoal and
\* DeleteGoal on its id, by any identity, is answered 404 and changes
\* nothing; and ListGoals returns only goals that are stored.
C15_HardDelete ==
    [][/\ HandlerStep("delete") /\ ctx'.resp.status = 200
            => \E g \in goals :
                   /\ Hex(g.id) = ctx'.param /\ g.userId = ctx.userId
                   /\ goals' = goals \ {g}
       /\ \A id \in Deleted : \A g \in goals' : g.id # id
       /\ \A route \in {"get", "update", "delete"}, id \in Deleted :
              HandlerStep(route) /\ ctx'.param = Hex(id)
                => /\ ctx'.resp = GoalResponse(404, "Goal not found", <<>>)
                   /\ goals' = goals
       /\ HandlerStep("list")
            => \A i \in 1..Len(ctx'.resp.goals) :
                   /\ ctx'.resp.goals[i] \in goals
                   /\ ctx'.resp.goals[i].id \notin Deleted]_vars

\* C15 witness: the former owner asked for a goal deleted earlier and was
\* answered 404, while another goal is still stored.
C15_Witness ==
    /\ Served("get")
    /\ ctx.resp.status = 404
    /\ \E id \in Deleted : ctx.param = Hex(id)
    /\ goals # {}

====
